---- MODULE Spec2Model ----
(***************************************************************************)
(* A model of basicsr/models/archs/NAFNet_lr_arch.py: the Lipschitz weight *)
(* parametrization (_LipNorm, LipNorm), SimpleGate, NAFBlock and the       *)
(* NAFNet_lr encoder/decoder network.                                      *)
(*                                                                         *)
(* Tensors are modelled by their shape <<B, C, H, W>> and, where a claim   *)
(* is about values, by their entries.  Tensor entries are exact rationals  *)
(* <<n, d>> (d > 0, lowest terms) extended with the IEEE special values    *)
(* the operations of the code can produce: Inf = <<1, 0>>,                 *)
(* -Inf = <<-1, 0>> and NaN = <<0, 0>>.  Rounding is not modelled.         *)
(***************************************************************************)
EXTENDS Integers, Sequences, FiniteSets, TLC

VARIABLES
    net,      \* the NAFNet_lr object last constructed (or the failed construction)
    out,      \* the record of the last NAFNet_lr.forward call
    conv,     \* one convolution module wrapped by LipNorm: raw weight and c
    used,     \* the record of the last forward pass of that convolution
    gate,     \* the record of the last SimpleGate.forward call
    blk,      \* one NAFBlock: its parameters
    blkOut    \* the record of the last NAFBlock.forward call

vars == <<net, out, conv, used, gate, blk, blkOut>>

(***************************************************************************)
(* Bounds of the model.                                                    *)
(***************************************************************************)
MaxStages == 2      \* longest enc_blk_nums / dec_blk_nums
MaxDim == 5         \* largest input height and width

Batches == {1, 2}           \* values of the input's batch size B
BlkCounts == {0, 1}         \* values of one stage's number of blocks
MaxChan == 5                \* largest channel count handed to SimpleGate
MaxSeed == 3                \* number of random initialisations of a NAFBlock

Widths == {4, 8}            \* values of the constructor's width
ImgChannels == {1, 3}       \* values of img_channel and of the input's C

RECURSIVE Pow2(_)
Pow2(n) == IF n = 0 THEN 1 ELSE 2 * Pow2(n - 1)

Min(a, b) == IF a <= b THEN a ELSE b

Reverse(s) == [i \in 1..Len(s) |-> s[Len(s) + 1 - i]]

(***************************************************************************)
(* Shapes.  The result of a tensor operation is either a shape or the     *)
(* error the tensor library raises.                                        *)
(***************************************************************************)
Ok(s) == [ok |-> TRUE, shape |-> s, err |-> "none"]
Err(msg) == [ok |-> FALSE, shape |-> <<>>, err |-> msg]

\* torch.nn.Conv2d.forward on shapes: kernel k, stride s, padding 0
Conv2dShape(r, in_channels, out_channels, k, s) ==
    IF ~r.ok THEN r
    ELSE IF r.shape[2] # in_channels THEN Err("conv: channel mismatch")
    ELSE IF r.shape[3] < k \/ r.shape[4] < k THEN Err("conv: kernel larger than input")
    ELSE Ok(<<r.shape[1], out_channels,
              (r.shape[3] - k) \div s + 1, (r.shape[4] - k) \div s + 1>>)

\* F.pad(x, (left, right, top, bottom), 'circular') on shapes
FPadCircularShape(r, left, right, top, bottom) ==
    IF ~r.ok THEN r
    ELSE IF left > r.shape[4] \/ right > r.shape[4]
            \/ top > r.shape[3] \/ bottom > r.shape[3]
         THEN Err("pad: wrapping around more than once")
    ELSE Ok(<<r.shape[1], r.shape[2],
              r.shape[3] + top + bottom, r.shape[4] + left + right>>)

\* nn.PixelShuffle(2) on shapes
PixelShuffleShape(r) ==
    IF ~r.ok THEN r
    ELSE IF r.shape[2] % 4 # 0 THEN Err("pixel_shuffle: channels not divisible by 4")
    ELSE Ok(<<r.shape[1], r.shape[2] \div 4, 2 * r.shape[3], 2 * r.shape[4]>>)

\* the broadcast shape of an elementwise a + b or a * b
BroadcastShape(a, b) ==
    IF ~a.ok THEN a
    ELSE IF ~b.ok THEN b
    ELSE IF \A i \in 1..4 : a.shape[i] = b.shape[i] \/ a.shape[i] = 1 \/ b.shape[i] = 1
         THEN Ok([i \in 1..4 |-> IF a.shape[i] = 1 THEN b.shape[i] ELSE a.shape[i]])
         ELSE Err("broadcast: size mismatch")

\* x.chunk(2, dim=1) on shapes: the sizes of the chunks along the channel axis
ChunkSizes(c) ==
    LET size == (c + 1) \div 2
    IN  IF c = 0 THEN <<0>>
        ELSE IF c - size > 0 THEN <<size, c - size>> ELSE <<size>>

\* SimpleGate.forward on shapes
SimpleGateShape(r) ==
    IF ~r.ok THEN r
    ELSE LET sizes == ChunkSizes(r.shape[2])
         IN  IF Len(sizes) # 2 THEN Err("unpack: not enough values")
             ELSE BroadcastShape(Ok([r.shape EXCEPT ![2] = sizes[1]]),
                                 Ok([r.shape EXCEPT ![2] = sizes[2]]))

kht == 3
kwd == 3
sht == 1
swd == 1

\* NAFBlock.CircularPadding and NAFNet_lr.CircularPadding on shapes
CircularPaddingShape(r) ==
    IF ~r.ok THEN r
    ELSE LET H == r.shape[3]
             W == r.shape[4]
         IN  IF ~(kwd % 2 # 0 /\ kht % 2 # 0
                  /\ (W - kwd) % swd = 0 /\ (H - kht) % sht = 0)
             THEN Err("assert: kernel_size should be odd")
             ELSE LET pwd == (W - 1 - ((W - kwd) \div swd)) \div 2
                      pht == (H - 1 - ((H - kht) \div sht)) \div 2
                  IN  FPadCircularShape(r, pwd, pwd, pht, pht)

DW_Expand == 2
FFN_Expand == 2

\* nn.AdaptiveAvgPool2d(1) on shapes
AvgPoolShape(r) ==
    IF ~r.ok THEN r ELSE Ok(<<r.shape[1], r.shape[2], 1, 1>>)

\* NAFBlock.forward on shapes, for a block built as NAFBlock(c)
NAFBlockShape(r, c) ==
    LET dw_channel == c * DW_Expand
        ffn_channel == FFN_Expand * c
        x1 == Conv2dShape(r, c, dw_channel, 1, 1)
        x2 == Conv2dShape(CircularPaddingShape(x1), dw_channel, dw_channel, 3, 1)
        x3 == SimpleGateShape(x2)
        sca == Conv2dShape(AvgPoolShape(x3), dw_channel \div 2, dw_channel \div 2, 1, 1)
        x4 == BroadcastShape(x3, sca)
        x5 == Conv2dShape(x4, dw_channel \div 2, c, 1, 1)
        y == BroadcastShape(r, x5)
        x6 == Conv2dShape(y, c, ffn_channel, 1, 1)
        x7 == SimpleGateShape(x6)
        x8 == Conv2dShape(x7, ffn_channel \div 2, c, 1, 1)
    IN  BroadcastShape(y, x8)

RECURSIVE SequentialShape(_, _, _)
\* nn.Sequential(*[NAFBlock(chan) for _ in range(num)]) on shapes
SequentialShape(r, chan, num) ==
    IF num = 0 THEN r ELSE SequentialShape(NAFBlockShape(r, chan), chan, num - 1)

(***************************************************************************)
(* NAFNet_lr.__init__                                                      *)
(***************************************************************************)
RECURSIVE BuildEncoders(_, _)
\* the loop over enc_blk_nums: one encoder stage and one down convolution each
BuildEncoders(nums, chan) ==
    IF nums = <<>> THEN <<>>
    ELSE <<[chan |-> chan, num |-> Head(nums), down |-> <<chan, 2 * chan>>]>>
         \o BuildEncoders(Tail(nums), chan * 2)

RECURSIVE BuildDecoders(_, _)
\* the loop over dec_blk_nums: one up convolution and one decoder stage each
BuildDecoders(nums, chan) ==
    IF nums = <<>> THEN <<>>
    ELSE <<[up |-> <<chan, chan * 2>>, chan |-> chan \div 2, num |-> Head(nums)]>>
         \o BuildDecoders(Tail(nums), chan \div 2)

\* NAFBlock(c) can be built: conv2 has groups = dw_channel, which nn.Conv2d
\* requires to be positive
NAFBlockInitOk(c) == c * DW_Expand > 0

NoNet ==
    [built |-> FALSE, err |-> "not constructed", img_channel |-> 0, width |-> 0,
     middle_blk_num |-> 0, enc_blk_nums |-> <<>>, dec_blk_nums |-> <<>>,
     encoders |-> <<>>, middle_chan |-> 0, decoders |-> <<>>, padder_size |-> 0]

NAFNet_lr_init(img_channel, width, middle_blk_num, enc_blk_nums, dec_blk_nums) ==
    LET encoders == BuildEncoders(enc_blk_nums, width)
        middle_chan == width * Pow2(Len(enc_blk_nums))
        decoders == BuildDecoders(dec_blk_nums, middle_chan)
        blocksOk == /\ \A k \in 1..Len(encoders) :
                          encoders[k].num > 0 => NAFBlockInitOk(encoders[k].chan)
                    /\ middle_blk_num > 0 => NAFBlockInitOk(middle_chan)
                    /\ \A k \in 1..Len(decoders) :
                          decoders[k].num > 0 => NAFBlockInitOk(decoders[k].chan)
    IN  [built |-> blocksOk,
         err |-> IF blocksOk THEN "none" ELSE "conv: groups must be a positive integer",
         img_channel |-> img_channel, width |-> width,
         middle_blk_num |-> middle_blk_num,
         enc_blk_nums |-> enc_blk_nums, dec_blk_nums |-> dec_blk_nums,
         encoders |-> encoders, middle_chan |-> middle_chan, decoders |-> decoders,
         padder_size |-> Pow2(Len(encoders))]

(***************************************************************************)
(* NAFNet_lr.check_image_size and NAFNet_lr.forward                        *)
(***************************************************************************)
\* mod_pad_h, mod_pad_w of check_image_size
ModPad(padder_size, h) == (padder_size - (h % padder_size)) % padder_size

\* the tuple (left, right, top, bottom) check_image_size hands to F.pad
CheckImageSizePadsLeftTop(padder_size, h, w) ==
    <<ModPad(padder_size, w), 0, ModPad(padder_size, h), 0>>

CheckImageSizePads(padder_size, h, w) ==
    <<0, ModPad(padder_size, w), 0, ModPad(padder_size, h)>>

check_image_size(n, r) ==
    IF ~r.ok THEN r
    ELSE LET pads == CheckImageSizePads(n.padder_size, r.shape[3], r.shape[4])
         IN  FPadCircularShape(r, pads[1], pads[2], pads[3], pads[4])

RECURSIVE RunEncoders(_, _, _)
\* for encoder, down in zip(self.encoders, self.downs)
RunEncoders(n, x, k) ==
    IF k > Len(n.encoders) THEN [x |-> x, encs |-> <<>>]
    ELSE LET e == SequentialShape(x, n.encoders[k].chan, n.encoders[k].num)
             d == Conv2dShape(e, n.encoders[k].down[1], n.encoders[k].down[2], 2, 2)
             rest == RunEncoders(n, d, k + 1)
         IN  [x |-> rest.x, encs |-> <<e>> \o rest.encs]

SkipsInOrder(encs) == encs

\* encs[::-1]
Skips(encs) == Reverse(encs)

RECURSIVE RunDecoders(_, _, _, _)
\* for decoder, up, enc_skip in zip(self.decoders, self.ups, encs[::-1])
RunDecoders(n, x, skips, k) ==
    IF k > Min(Len(n.decoders), Len(skips)) \/ ~x.ok THEN [x |-> x, adds |-> <<>>]
    ELSE LET up == PixelShuffleShape(
                       Conv2dShape(x, n.decoders[k].up[1], n.decoders[k].up[2], 1, 1))
             sum == BroadcastShape(up, skips[k])
             d == SequentialShape(sum, n.decoders[k].chan, n.decoders[k].num)
             rest == RunDecoders(n, d, skips, k + 1)
         IN  [x |-> rest.x, adds |-> <<[up |-> up, skip |-> skips[k]]>> \o rest.adds]

NoCrop(r, H, W) == r

\* x[:, :, :H, :W]
Crop(r, H, W) ==
    IF ~r.ok THEN r
    ELSE Ok(<<r.shape[1], r.shape[2], Min(r.shape[3], H), Min(r.shape[4], W)>>)

(***************************************************************************)
(* One (batch, channel) plane of the input, followed through the padding,  *)
(* the global residual and the crop.  A plane is a function from           *)
(* positions <<i, j>> to integers.                                         *)
(***************************************************************************)
Positions(H, W) == (1..H) \X (1..W)

NoPlane == [p \in {} |-> 0]

\* the test planes: all zero, checkerboard, and one with every entry distinct
InputPlanes(H, W) ==
    { [p \in Positions(H, W) |-> 0],
      [p \in Positions(H, W) |-> (p[1] + p[2]) % 2],
      [p \in Positions(H, W) |-> 10 * p[1] + p[2]] }

\* F.pad(x, (left, right, top, bottom), 'circular') on a plane of size H x W
FPadCircularPlane(plane, H, W, left, right, top, bottom) ==
    [p \in Positions(H + top + bottom, W + left + right) |->
        plane[<<((p[1] - 1 - top) % H) + 1, ((p[2] - 1 - left) % W) + 1>>]]

\* the plane of the ending convolution's output: the network body is not
\* followed on values, its output is a plane of the padded size with every
\* entry distinct
EndingPlane(H, W) == [p \in Positions(H, W) |-> 100 * p[1] + 7 * p[2]]

NoOut ==
    [called |-> FALSE, input |-> <<>>, padded |-> Err("not called"), encs |-> <<>>,
     adds |-> <<>>, ending |-> Err("not called"), result |-> Err("not called"),
     inpPlane |-> NoPlane, padPlane |-> NoPlane, endPlane |-> NoPlane,
     outPlane |-> NoPlane]

NAFNet_lr_forward(n, B, C, H, W, plane) ==
    LET inp == check_image_size(n, Ok(<<B, C, H, W>>))
        x0 == Conv2dShape(CircularPaddingShape(inp), n.img_channel, n.width, 3, 1)
        enc == RunEncoders(n, x0, 1)
        mid == SequentialShape(enc.x, n.middle_chan, n.middle_blk_num)
        dec == RunDecoders(n, mid, Skips(enc.encs), 1)
        ending == Conv2dShape(CircularPaddingShape(dec.x), n.width, n.img_channel, 3, 1)
        sum == BroadcastShape(ending, inp)
        result == Crop(sum, H, W)
        pads == CheckImageSizePads(n.padder_size, H, W)
        padPlane == FPadCircularPlane(plane, H, W, pads[1], pads[2], pads[3], pads[4])
        endPlane == EndingPlane(inp.shape[3], inp.shape[4])
    IN  [called |-> TRUE, input |-> <<B, C, H, W>>, padded |-> inp,
         encs |-> enc.encs, adds |-> dec.adds, ending |-> ending, result |-> result,
         inpPlane |-> plane,
         padPlane |-> IF result.ok THEN padPlane ELSE NoPlane,
         endPlane |-> IF result.ok THEN endPlane ELSE NoPlane,
         outPlane |-> IF result.ok
                      THEN [p \in Positions(result.shape[3], result.shape[4]) |->
                                endPlane[p] + padPlane[p]]
                      ELSE NoPlane]

(***************************************************************************)
(* Tensor entries: exact rationals <<n, d>> in lowest terms with d > 0,    *)
(* and the IEEE special values Inf, -Inf and NaN with the rules IEEE       *)
(* arithmetic gives them.                                                  *)
(***************************************************************************)
NaN == <<0, 0>>
Inf == <<1, 0>>
NegInf == <<-1, 0>>

Abs(n) == IF n < 0 THEN -n ELSE n

Sgn(n) == IF n < 0 THEN -1 ELSE IF n = 0 THEN 0 ELSE 1

RECURSIVE GCD(_, _)
GCD(a, b) == IF b = 0 THEN a ELSE GCD(b, a % b)

\* the rational n / d, d > 0, in lowest terms
Rat(n, d) == LET g == GCD(Abs(n), d) IN <<n \div g, d \div g>>

IsNaN(x) == x = NaN
IsFinite(x) == x[2] > 0

FAdd(a, b) ==
    IF IsNaN(a) \/ IsNaN(b) THEN NaN
    ELSE IF ~IsFinite(a) /\ ~IsFinite(b) THEN (IF a = b THEN a ELSE NaN)
    ELSE IF ~IsFinite(a) THEN a
    ELSE IF ~IsFinite(b) THEN b
    ELSE LET g == GCD(a[2], b[2])
         IN  Rat(a[1] * (b[2] \div g) + b[1] * (a[2] \div g), (a[2] \div g) * b[2])

FMul(a, b) ==
    IF IsNaN(a) \/ IsNaN(b) THEN NaN
    ELSE IF ~IsFinite(a) \/ ~IsFinite(b)
         THEN (IF a[1] = 0 \/ b[1] = 0 THEN NaN
               ELSE IF Sgn(a[1]) * Sgn(b[1]) > 0 THEN Inf ELSE NegInf)
    ELSE LET g == GCD(Abs(a[1]), b[2])
             h == GCD(Abs(b[1]), a[2])
         IN  Rat((a[1] \div g) * (b[1] \div h), (a[2] \div h) * (b[2] \div g))

FDiv(a, b) ==
    IF IsNaN(a) \/ IsNaN(b) THEN NaN
    ELSE IF ~IsFinite(a) /\ ~IsFinite(b) THEN NaN
    ELSE IF ~IsFinite(b) THEN <<0, 1>>
    ELSE IF b[1] = 0
         THEN (IF a[1] = 0 THEN NaN ELSE IF a[1] > 0 THEN Inf ELSE NegInf)
    ELSE IF ~IsFinite(a)
         THEN (IF Sgn(a[1]) * Sgn(b[1]) > 0 THEN Inf ELSE NegInf)
    ELSE Rat(a[1] * b[2] * Sgn(b[1]), a[2] * Abs(b[1]))

FAbs(a) == <<Abs(a[1]), a[2]>>

\* a <= b on floats: false when either is NaN
FLeq(a, b) ==
    /\ ~IsNaN(a)
    /\ ~IsNaN(b)
    /\ IF ~IsFinite(a) THEN (a = NegInf \/ b = Inf)
       ELSE IF ~IsFinite(b) THEN b = Inf
       ELSE a[1] * b[2] <= b[1] * a[2]

\* torch.min(a, b) on two tensors is the elementwise minimum, which returns
\* NaN when either element is NaN
FMinimum(a, b) ==
    IF IsNaN(a) \/ IsNaN(b) THEN NaN
    ELSE IF FLeq(a, b) THEN a ELSE b

RECURSIVE FSum(_, _)
\* the sum of f over the index set S
FSum(f, S) ==
    IF S = {} THEN <<0, 1>>
    ELSE LET i == CHOOSE i \in S : TRUE
         IN  FAdd(f[i], FSum(f, S \ {i}))

\* torch.nn.functional.softplus (beta 1, threshold 20) in float32, to the
\* nearest quarter: log1p(exp(c)), which is exactly 0 once exp(c)
\* underflows (c below about -104)
Softplus(c) ==
    CASE c = -200 -> <<0, 1>>
      [] c = -1 -> Rat(1, 4)
      [] c = 0 -> Rat(3, 4)
      [] c = 1 -> Rat(5, 4)
      [] c = 2 -> Rat(9, 4)

\* values of the scalar c: what torch.randn(1) draws at construction, and
\* what an external update can store in it
RandnVals == {-1, 0, 1}
CVals == {-200, -1, 0, 1, 2}

(***************************************************************************)
(* _LipNorm and LipNorm.  A weight is a record of its shape                *)
(* <<out, in, kh, kw>> and its entries, indexed by 4-tuples.               *)
(***************************************************************************)
Indices(shape) == (1..shape[1]) \X (1..shape[2]) \X (1..shape[3]) \X (1..shape[4])

\* _LipNorm._reshape_weight_to_matrix: weight.flatten(1); row o of the
\* matrix holds the entries whose first index is o
RowIndices(shape, o) == {i \in Indices(shape) : i[1] = o}

\* _LipNorm.forward
LipNorm_forward(weight, ci) ==
    LET softplus_ci == Softplus(ci)
        absw == [i \in Indices(weight.shape) |-> FAbs(weight.w[i])]
        absrowsum == [o \in 1..weight.shape[1] |->
                         FSum(absw, RowIndices(weight.shape, o))]
        scale == [o \in 1..weight.shape[1] |->
                     FMinimum(<<1, 1>>, FDiv(softplus_ci, absrowsum[o]))]
    IN  [shape |-> weight.shape,
         w |-> [i \in Indices(weight.shape) |-> FMul(weight.w[i], scale[i[1]])] @@ <<>>]

\* _LipNorm.right_inverse
right_inverse(value) == value

\* values of the entries of a raw weight
WVals == {<<-1, 1>>, <<0, 1>>, <<2, 1>>}

WeightShapes == {<<1, 1, 1, 1>>, <<2, 1, 1, 1>>, <<1, 2, 1, 1>>, <<2, 1, 1, 2>>}

Weights(shape) == {[shape |-> shape, w |-> f] : f \in [Indices(shape) -> WVals]}

NoWeight == [shape |-> <<0, 0, 0, 0>>, w |-> <<>>]

NoConv ==
    [registered |-> FALSE, err |-> "not constructed", original |-> NoWeight,
     written |-> NoWeight, ci |-> 0]

NoUsed == [called |-> FALSE, weight |-> NoWeight]

\* LipNorm(module, name): module.<name> is a tensor or is missing
LipNorm(hasWeight, weight, ci) ==
    IF ~hasWeight
    THEN [NoConv EXCEPT !.err = "ValueError: no parameter or buffer with that name"]
    ELSE [registered |-> TRUE, err |-> "none", original |-> right_inverse(weight),
          written |-> weight, ci |-> ci]

\* module.weight of a parametrized module: the parametrization applied to
\* the stored original
ParametrizedWeight(c) == LipNorm_forward(c.original, c.ci)

(***************************************************************************)
(* Tensors with values: a shape <<B, C, H, W>> and entries indexed by      *)
(* 4-tuples; the result of an operation is a tensor or an error.           *)
(***************************************************************************)
\* (v @@ <<>> is v, as an explicit table of its entries)
TOk(shape, v) == [ok |-> TRUE, shape |-> shape, v |-> v @@ <<>>, err |-> "none"]
TErr(msg) == [ok |-> FALSE, shape |-> <<>>, v |-> <<>>, err |-> msg]

ShapeOf(x) == IF x.ok THEN Ok(x.shape) ELSE Err(x.err)

\* the entry of x that broadcasting to a larger shape reads at index i
BroadcastAt(x, i) == x.v[[k \in 1..4 |-> IF x.shape[k] = 1 THEN 1 ELSE i[k]]]

\* elementwise a + b
TAdd(a, b) ==
    LET sh == BroadcastShape(ShapeOf(a), ShapeOf(b))
    IN  IF ~sh.ok THEN TErr(sh.err)
        ELSE TOk(sh.shape, [i \in Indices(sh.shape) |->
                               FAdd(BroadcastAt(a, i), BroadcastAt(b, i))])

\* elementwise a * b
TMul(a, b) ==
    LET sh == BroadcastShape(ShapeOf(a), ShapeOf(b))
    IN  IF ~sh.ok THEN TErr(sh.err)
        ELSE TOk(sh.shape, [i \in Indices(sh.shape) |->
                               FMul(BroadcastAt(a, i), BroadcastAt(b, i))])

\* the channels lo..hi of x
Narrow(x, lo, hi) ==
    LET shape == [x.shape EXCEPT ![2] = hi - lo + 1]
    IN  TOk(shape, [i \in Indices(shape) |-> x.v[[i EXCEPT ![2] = i[2] + lo - 1]]])

\* SimpleGate.forward: x1, x2 = x.chunk(2, dim=1); return x1 * x2
SimpleGate_forward(x) ==
    IF ~x.ok THEN x
    ELSE LET sizes == ChunkSizes(x.shape[2])
         IN  IF Len(sizes) # 2 THEN TErr("unpack: not enough values")
             ELSE TMul(Narrow(x, 1, sizes[1]),
                       Narrow(x, sizes[1] + 1, sizes[1] + sizes[2]))

\* F.pad(x, (left, right, top, bottom), 'circular')
TPadCircular(x, left, right, top, bottom) ==
    LET sh == FPadCircularShape(ShapeOf(x), left, right, top, bottom)
    IN  IF ~sh.ok THEN TErr(sh.err)
        ELSE TOk(sh.shape,
                 [i \in Indices(sh.shape) |->
                     x.v[<<i[1], i[2], ((i[3] - 1 - top) % x.shape[3]) + 1,
                           ((i[4] - 1 - left) % x.shape[4]) + 1>>]])

\* NAFBlock.CircularPadding
CircularPadding(x) ==
    LET sh == CircularPaddingShape(ShapeOf(x))
    IN  IF ~sh.ok THEN TErr(sh.err)
        ELSE LET pwd == (sh.shape[4] - x.shape[4]) \div 2
                 pht == (sh.shape[3] - x.shape[3]) \div 2
             IN  TPadCircular(x, pwd, pwd, pht, pht)

\* nn.Conv2d.forward with stride 1 and padding 0; weight has the shape
\* <<out_channels, in_channels / groups, k, k>>
TConv2d(x, weight, bias, groups) ==
    LET O == weight.shape[1]
        Ig == weight.shape[2]
        K == weight.shape[3]
        sh == Conv2dShape(ShapeOf(x), Ig * groups, O, K, 1)
        taps == (1..Ig) \X (1..K) \X (1..K)
        first(o) == ((o - 1) \div (O \div groups)) * Ig
    IN  IF ~sh.ok THEN TErr(sh.err)
        ELSE TOk(sh.shape,
                 [i \in Indices(sh.shape) |->
                     FAdd(bias[i[2]],
                          FSum([t \in taps |->
                                   FMul(weight.w[<<i[2], t[1], t[2], t[3]>>],
                                        x.v[<<i[1], first(i[2]) + t[1],
                                              i[3] + t[2] - 1, i[4] + t[3] - 1>>])],
                               taps))])

\* nn.AdaptiveAvgPool2d(1)
AdaptiveAvgPool(x) ==
    IF ~x.ok THEN x
    ELSE LET shape == <<x.shape[1], x.shape[2], 1, 1>>
             area == (1..x.shape[3]) \X (1..x.shape[4])
         IN  TOk(shape,
                 [i \in Indices(shape) |->
                     FDiv(FSum([p \in area |-> x.v[<<i[1], i[2], p[1], p[2]>>]], area),
                          <<x.shape[3] * x.shape[4], 1>>)])

\* LayerNorm2d(c): normalisation over the channels at each position, then a
\* per-channel scale and shift.  (x - mean) / sqrt(var + eps) is the sign of
\* x - mean when there are at most two channels and eps is neglected.
LayerNorm2d(x, weight, bias) ==
    IF ~x.ok THEN x
    ELSE LET chans == 1..x.shape[2]
             total(i) == FSum([c \in chans |-> x.v[[i EXCEPT ![2] = c]]], chans)
             centred(i) == FAdd(FMul(<<x.shape[2], 1>>, x.v[i]),
                                FMul(<<-1, 1>>, total(i)))
         IN  TOk(x.shape,
                 [i \in Indices(x.shape) |->
                     FAdd(FMul(weight[i[2]], <<Sgn(centred(i)[1]), 1>>), bias[i[2]])])

(***************************************************************************)
(* NAFBlock                                                                *)
(***************************************************************************)
\* the value a seeded random initialisation stores at index i of tensor t:
\* -1, 0 or 1, with the kernels supported on the taps (1, 1) and (2, 2)
Draw(seed, t, i) ==
    IF i[3] = i[4] /\ i[3] <= 2
    THEN <<((seed + t + 2 * i[1] + i[2] + i[3]) % 3) - 1, 1>>
    ELSE <<0, 1>>

\* LipNorm(nn.Conv2d(...)) with randomly initialised weight, bias and c
NewConv(seed, t, shape) ==
    [conv |-> LipNorm(TRUE, [shape |-> shape,
                             w |-> [i \in Indices(shape) |-> Draw(seed, t, i)]],
                      ((seed + t) % 3) - 1),
     bias |-> [o \in 1..shape[1] |-> Draw(seed, t + 1, <<o, 0, 0, 0>>)]]

BetaInitOnes(c) == [ch \in 1..c |-> <<1, 1>>]

\* torch.zeros((1, c, 1, 1)) for beta and gamma
BetaInit(c) == [ch \in 1..c |-> <<0, 1>>]

NoBlk == [built |-> FALSE, fresh |-> FALSE, c |-> 0]

\* NAFBlock.__init__(c) with the default DW_Expand, FFN_Expand, drop_out_rate
NAFBlock_init(c, seed) ==
    LET dw_channel == c * DW_Expand
        ffn_channel == FFN_Expand * c
    IN  [built |-> TRUE, fresh |-> TRUE, c |-> c,
         conv1 |-> NewConv(seed, 1, <<dw_channel, c, 1, 1>>),
         conv2 |-> NewConv(seed, 3, <<dw_channel, 1, 3, 3>>),
         groups2 |-> dw_channel,
         conv3 |-> NewConv(seed, 5, <<c, dw_channel \div 2, 1, 1>>),
         sca |-> NewConv(seed, 7, <<dw_channel \div 2, dw_channel \div 2, 1, 1>>),
         conv4 |-> NewConv(seed, 9, <<ffn_channel, c, 1, 1>>),
         conv5 |-> NewConv(seed, 11, <<c, ffn_channel \div 2, 1, 1>>),
         norm1 |-> [weight |-> [ch \in 1..c |-> <<1, 1>>],
                    bias |-> [ch \in 1..c |-> <<0, 1>>]],
         norm2 |-> [weight |-> [ch \in 1..c |-> <<1, 1>>],
                    bias |-> [ch \in 1..c |-> <<0, 1>>]],
         beta |-> BetaInit(c),
         gamma |-> BetaInit(c)]

\* a wrapped convolution applied to x: the weight is read through the
\* parametrization
ApplyConv(x, m, groups) ==
    IF ~x.ok THEN x ELSE TConv2d(x, ParametrizedWeight(m.conv), m.bias, groups)

\* beta, gamma as tensors of shape (1, c, 1, 1)
ChannelScale(c, s) == TOk(<<1, c, 1, 1>>, [i \in Indices(<<1, c, 1, 1>>) |-> s[i[2]]])

\* NAFBlock.forward: the first branch (up to dropout1), y, the second branch
\* (up to dropout2) and the result; both dropouts are nn.Identity
NAFBlock_forward(b, inp) ==
    LET n1 == LayerNorm2d(inp, b.norm1.weight, b.norm1.bias)
        x1 == ApplyConv(n1, b.conv1, 1)
        x2 == ApplyConv(CircularPadding(x1), b.conv2, b.groups2)
        x3 == SimpleGate_forward(x2)
        x4 == TMul(x3, ApplyConv(AdaptiveAvgPool(x3), b.sca, 1))
        x5 == ApplyConv(x4, b.conv3, 1)
        y == TAdd(inp, TMul(x5, ChannelScale(b.c, b.beta)))
        x6 == ApplyConv(LayerNorm2d(y, b.norm2.weight, b.norm2.bias), b.conv4, 1)
        x7 == SimpleGate_forward(x6)
        x8 == ApplyConv(x7, b.conv5, 1)
    IN  [called |-> TRUE, inp |-> inp, branch1 |-> x5, branch2 |-> x8,
         result |-> TAdd(y, TMul(x8, ChannelScale(b.c, b.gamma)))]

NoBlkOut ==
    [called |-> FALSE, inp |-> TErr("not called"), branch1 |-> TErr("not called"),
     branch2 |-> TErr("not called"), result |-> TErr("not called")]

NoGate == [called |-> FALSE, inp |-> TErr("not called"), result |-> TErr("not called")]

(***************************************************************************)
(* The network: construction and forward passes.                          *)
(***************************************************************************)

Init ==
    /\ net = NoNet
    /\ out = NoOut
    /\ conv = NoConv
    /\ used = NoUsed
    /\ gate = NoGate
    /\ blk = NoBlk
    /\ blkOut = NoBlkOut

\* the values of enc_blk_nums and dec_blk_nums: n stages of b blocks each
BlkNums == {[i \in 1..n |-> b] : n \in 0..MaxStages, b \in BlkCounts}

\* net = NAFNet_lr(...): as in the __main__ demo, one network is built
Construct ==
    /\ net = NoNet
    /\ \E img_channel \in ImgChannels, width \in Widths, middle_blk_num \in BlkCounts,
          enc_blk_nums \in BlkNums, dec_blk_nums \in BlkNums :
          net' = NAFNet_lr_init(img_channel, width, middle_blk_num,
                                enc_blk_nums, dec_blk_nums)
    /\ out' = NoOut
    /\ UNCHANGED <<conv, used, gate, blk, blkOut>>

\* out = net(inp): one forward pass of the network built
Forward ==
    /\ net.built
    /\ ~out.called
    /\ \E B \in Batches, C \in ImgChannels, H \in 1..MaxDim, W \in 1..MaxDim :
          \E plane \in InputPlanes(H, W) :
              out' = NAFNet_lr_forward(net, B, C, H, W, plane)
    /\ UNCHANGED <<net, conv, used, gate, blk, blkOut>>

Next == Construct \/ Forward

Spec == Init /\ [][Next]_vars

(***************************************************************************)
(* Properties of the network.                                              *)
(***************************************************************************)
NStages == Len(net.enc_blk_nums)

Balanced == Len(net.enc_blk_nums) = Len(net.dec_blk_nums)

\* C1: with as many decoder as encoder stages (n of each), a forward pass on
\* an input of shape (B, C, H, W) with C = img_channel and H, W >= 2^n returns
\* a tensor of exactly that shape, also when H or W is no multiple of 2^n.
C1_ShapePreserved ==
    (/\ out.called
     /\ Balanced
     /\ out.input[2] = net.img_channel
     /\ out.input[3] >= Pow2(NStages)
     /\ out.input[4] >= Pow2(NStages))
    => (out.result.ok /\ out.result.shape = out.input)

\* a forward pass of a two-stage network on a 5 x 5 input (padded to 8 x 8)
\* has returned a 5 x 5 tensor
C1_Witness ==
    /\ out.called
    /\ Balanced
    /\ NStages = 2
    /\ out.input[2] = net.img_channel
    /\ out.input[3] = 5
    /\ out.input[4] = 5
    /\ out.padded.ok
    /\ out.padded.shape[3] = 8
    /\ out.result.ok
    /\ out.result.shape = out.input

\* C5: a network whose enc_blk_nums and dec_blk_nums differ in length is
\* never built, so no forward pass runs on one.
C5_MismatchRejected ==
    /\ net.built => Balanced
    /\ out.called => Balanced

\* C6: with n encoder (and decoder) stages, a forward pass on an input whose
\* height or width is smaller than 2^n completes and returns a tensor of the
\* input's height and width.
C6_SmallInputSucceeds ==
    (/\ out.called
     /\ Balanced
     /\ out.input[2] = net.img_channel
     /\ (out.input[3] < Pow2(NStages) \/ out.input[4] < Pow2(NStages)))
    => (out.result.ok /\ out.result.shape = out.input)

\* C8: with n encoder and n decoder stages, at every decoder step the
\* upsampled tensor and the skip tensor it is added to have the same shape:
\* encoder stage j (from 0) outputs width * 2^j channels at the padded size
\* divided by 2^j, and decoder step k adds the skip of stage n - k.
C8_SkipShapesMatch ==
    (out.called /\ Balanced)
    => LET n == NStages
           B == out.input[1]
           Hp == out.padded.shape[3]
           Wp == out.padded.shape[4]
           StageShape(j) ==
               <<B, net.width * Pow2(j), Hp \div Pow2(j), Wp \div Pow2(j)>>
       IN  /\ \A j \in 1..Len(out.encs) :
                 out.encs[j].ok => out.encs[j].shape = StageShape(j - 1)
           /\ \A k \in 1..Len(out.adds) :
                 /\ out.adds[k].up.ok
                 /\ out.adds[k].up = out.adds[k].skip
                 /\ out.adds[k].skip.shape = StageShape(n - k)
           /\ out.result.ok => (Len(out.adds) = n /\ Len(out.encs) = n)

\* a forward pass of a two-stage network has run both of its decoder steps
C8_Witness ==
    /\ out.called
    /\ Balanced
    /\ NStages = 2
    /\ out.result.ok
    /\ Len(out.adds) = 2
    /\ out.adds[1].skip.shape[2] = 2 * net.width
    /\ out.adds[2].skip.shape[2] = net.width

\* C9: the value returned at every position (i, j) with i <= H and j <= W is
\* the ending convolution's output there plus the original input's value
\* there, although the tensor added is the padded one.
C9_ResidualIsOriginalInput ==
    (out.called /\ out.result.ok)
    => \A p \in Positions(out.input[3], out.input[4]) :
           /\ p \in DOMAIN out.outPlane
           /\ out.outPlane[p] = out.endPlane[p] + out.inpPlane[p]

\* a forward pass has returned for an input that was padded in both
\* directions and whose entries are all distinct
C9_Witness ==
    /\ out.called
    /\ out.result.ok
    /\ out.padded.shape[3] > out.input[3]
    /\ out.padded.shape[4] > out.input[4]
    /\ out.inpPlane[<<1, 1>>] = 11
    /\ out.outPlane[<<1, 1>>] = 118

\* C10: for every h, w >= 1 and every n, check_image_size returns a tensor
\* whose height and width are the smallest multiples of 2^n that are >= h
\* and >= w.
C10_PaddedToSmallestMultiple ==
    out.called
    => /\ out.padded.ok
       /\ out.padded.shape[3] % net.padder_size = 0
       /\ out.padded.shape[4] % net.padder_size = 0
       /\ out.input[3] <= out.padded.shape[3]
       /\ out.padded.shape[3] < out.input[3] + net.padder_size
       /\ out.input[4] <= out.padded.shape[4]
       /\ out.padded.shape[4] < out.input[4] + net.padder_size

(***************************************************************************)
(* One wrapped convolution: registration, external updates of its          *)
(* parameters between forward passes, and forward passes.                  *)
(***************************************************************************)
\* conv = LipNorm(nn.Conv2d(...))
LipNormRegister ==
    /\ conv = NoConv
    /\ \E hasWeight \in BOOLEAN, shape \in WeightShapes, ci \in RandnVals :
          \E weight \in Weights(shape) :
              conv' = LipNorm(hasWeight, weight, ci)
    /\ used' = NoUsed
    /\ UNCHANGED <<net, out, gate, blk, blkOut>>

\* an external training step stores new values in the raw weight and in c;
\* the constrained weight of the previous pass is a temporary of that pass
OptimizerStep ==
    /\ conv.registered
    /\ \E weight \in Weights(conv.original.shape), ci \in CVals :
          conv' = [conv EXCEPT !.original = weight, !.written = weight, !.ci = ci]
    /\ used' = NoUsed
    /\ UNCHANGED <<net, out, gate, blk, blkOut>>

\* a forward pass of the convolution reads module.weight
ConvForward ==
    /\ conv.registered
    /\ used' = [called |-> TRUE, weight |-> ParametrizedWeight(conv)]
    /\ UNCHANGED <<net, out, conv, gate, blk, blkOut>>

NextLip == LipNormRegister \/ OptimizerStep \/ ConvForward

SpecLip == Init /\ [][NextLip]_vars

\* the absolute row sum of row o of a weight
AbsRowSum(weight, o) ==
    FSum([i \in Indices(weight.shape) |-> FAbs(weight.w[i])],
         RowIndices(weight.shape, o))

RowSumsBounded(weight, bound) ==
    \A o \in 1..weight.shape[1] : FLeq(AbsRowSum(weight, o), bound)

\* C2: for every raw weight W and every value of c, the weight returned by
\* _LipNorm.forward has the shape of W and every row of it has an absolute
\* row sum <= softplus(c).
C2_RowSumBound ==
    used.called
    => /\ used.weight.shape = conv.original.shape
       /\ DOMAIN used.weight.w = DOMAIN conv.original.w
       /\ RowSumsBounded(used.weight, Softplus(conv.ci))

\* C7: at every forward pass the weight used is the transform of the current
\* raw weight and the current c, so its row sums are bounded by the current
\* softplus(c); and the stored raw weight is what was last written to it,
\* never the constrained value.
C7_RecomputedEveryPass ==
    /\ used.called
       => /\ used.weight = LipNorm_forward(conv.written, conv.ci)
          /\ RowSumsBounded(used.weight, Softplus(conv.ci))
    /\ conv.registered => conv.original = conv.written

\* the parts of C2 and C7 that do not depend on softplus(c) being positive
LipBoundWhenPositive ==
    /\ used.called
       => /\ used.weight.shape = conv.original.shape
          /\ used.weight = LipNorm_forward(conv.written, conv.ci)
          /\ (Softplus(conv.ci)[1] > 0
              => RowSumsBounded(used.weight, Softplus(conv.ci)))
    /\ conv.registered => conv.original = conv.written

(***************************************************************************)
(* SimpleGate on its own.                                                  *)
(***************************************************************************)
GateShapes == {<<1, c, 1, 1>> : c \in 1..MaxChan}

Tensors(shape, vals) == {TOk(shape, v) : v \in [Indices(shape) -> vals]}

\* SimpleGate()(x)
GateForward ==
    /\ \E shape \in GateShapes :
          \E x \in Tensors(shape, WVals) :
              gate' = [called |-> TRUE, inp |-> x, result |-> SimpleGate_forward(x)]
    /\ UNCHANGED <<net, out, conv, used, blk, blkOut>>

NextGate == GateForward

SpecGate == Init /\ [][NextGate]_vars

\* C3: SimpleGate.forward on an input with an odd number of channels always
\* fails and never returns a tensor.
C3_OddChannelsFail ==
    (gate.called /\ gate.inp.shape[2] % 2 = 1) => ~gate.result.ok

\* what SimpleGate.forward does: an even count 2k gives the k products; 1
\* channel fails to unpack; 3 channels give 2 (the third is broadcast); an
\* odd count >= 5 fails to broadcast
SimpleGateByCount ==
    gate.called
    => LET c == gate.inp.shape[2]
       IN  /\ c % 2 = 0
              => /\ gate.result.ok
                 /\ gate.result.shape = <<1, c \div 2, 1, 1>>
                 /\ \A i \in Indices(gate.result.shape) :
                       gate.result.v[i]
                           = FMul(gate.inp.v[i],
                                  gate.inp.v[[i EXCEPT ![2] = i[2] + c \div 2]])
           /\ c = 1 => gate.result.err = "unpack: not enough values"
           /\ c = 3 => (gate.result.ok /\ gate.result.shape = <<1, 2, 1, 1>>)
           /\ (c % 2 = 1 /\ c >= 5) => gate.result.err = "broadcast: size mismatch"

(***************************************************************************)
(* One NAFBlock: construction, external updates of beta and gamma, and     *)
(* forward passes.                                                         *)
(***************************************************************************)
BlockChans == {1, 2}
BlockSizes == {<<1, 1>>, <<1, 2>>, <<2, 1>>}

\* blk = NAFBlock(c)
BlockConstruct ==
    /\ blk = NoBlk
    /\ \E c \in BlockChans, seed \in 1..MaxSeed : blk' = NAFBlock_init(c, seed)
    /\ blkOut' = NoBlkOut
    /\ UNCHANGED <<net, out, conv, used, gate>>

\* an external training step stores new values in beta and gamma; the
\* activations of the previous pass are gone
TrainStep ==
    /\ blk.built
    /\ \E b \in {0, 1}, g \in {0, 1} :
          blk' = [blk EXCEPT !.beta = [ch \in 1..blk.c |-> <<b, 1>>],
                             !.gamma = [ch \in 1..blk.c |-> <<g, 1>>],
                             !.fresh = FALSE]
    /\ blkOut' = NoBlkOut
    /\ UNCHANGED <<net, out, conv, used, gate>>

\* blk(x)
BlockForward ==
    /\ blk.built
    /\ ~blkOut.called
    /\ \E size \in BlockSizes :
          \E x \in Tensors(<<1, blk.c, size[1], size[2]>>, WVals) :
              blkOut' = NAFBlock_forward(blk, x)
    /\ UNCHANGED <<net, out, conv, used, gate, blk>>

NextBlock == BlockConstruct \/ TrainStep \/ BlockForward

SpecBlock == Init /\ [][NextBlock]_vars

\* C4: a forward pass of a NAFBlock that has had no parameter update since
\* its construction returns its input, entry for entry.
C4_IdentityAtInit ==
    (blkOut.called /\ blk.fresh)
    => /\ blkOut.result.ok
       /\ blkOut.result.shape = blkOut.inp.shape
       /\ blkOut.result.v = blkOut.inp.v

\* a fresh block has returned its input although neither of its two
\* branches computed zero
C4_Witness ==
    /\ blkOut.called
    /\ blk.fresh
    /\ blkOut.branch1.ok
    /\ blkOut.branch2.ok
    /\ \E i \in Indices(blkOut.inp.shape) :
          /\ blkOut.branch1.v[i][1] # 0
          /\ blkOut.branch2.v[i][1] # 0
          /\ blkOut.inp.v[i][1] # 0
    /\ blkOut.result.v = blkOut.inp.v

====
